---- MODULE Spec2Model ----
(***************************************************************************)
(* Verification model of the spider-engine DX12 core:                      *)
(*   - SynchronizationObject, the DX12Renderer frame cycle, createTexture2D*)
(*     uploads and the destructor's drain                      (SpecFrame) *)
(*   - HeapAllocator descriptor arenas                          (SpecHeap) *)
(*   - DX12Compiler::createRenderPipeline, RenderPipeline::bindBuffer, the *)
(*     resource-view binds and the constant-buffer part of                 *)
(*     DX12Renderer::draw                                   (SpecPipeline) *)
(*   - HeapAllocator::writeOnDescriptorHeap on two threads  (SpecThreads)  *)
(*   - SynchronizationObject lifetimes and event handles    (SpecHandles)  *)
(*   - FastArray                                          (SpecFastArray)  *)
(* Each component has its own specification; the variables of the other    *)
(* components stay at their initial value.                                 *)
(***************************************************************************)
EXTENDS Integers, Sequences, FiniteSets, TLC

(***************************************************************************)
(* Bounds of the model.                                                    *)
(***************************************************************************)
\* largest swap-chain buffer count (frames in flight) explored
MaxBufferCount == 3
\* number of frames the frame loop may begin
MaxFrames == 5
\* largest capacity a descriptor heap is created with
MaxCapacity == 2
\* largest operationCount of one writeOnDescriptorHeap call
MaxCount == 2
\* number of writeOnDescriptorHeap calls explored
MaxHeapOps == 3
\* number of distinct values bound to constant buffers
MaxData == 2
\* number of bindBuffer and draw calls explored on one pipeline
MaxPipeOps == 3
\* number of createTexture2D calls explored
MaxUploads == 2
\* number of SynchronizationObject objects whose lifetimes are explored
MaxObjects == 3
\* largest bufferCount a SynchronizationObject is constructed with
MaxEvents == 2
\* number of FastArray objects explored
MaxArrays == 2
\* largest size_ a pushBack / emplaceBack starts from, largest capacity asked for
MaxArraySize == 3

VARIABLES
    \* ---- SynchronizationObject / DX12Renderer frame cycle ----
    bufferCount_,     \* DX12Renderer::bufferCount_ (= SynchronizationObject::bufferCount_)
    frameIndex_,      \* DX12Renderer::frameIndex_
    backBufferIndex,  \* IDXGISwapChain::GetCurrentBackBufferIndex()
    values_,          \* SynchronizationObject::values_
    currentValue_,    \* SynchronizationObject::currentValue_
    completedValue,   \* ID3D12Fence::GetCompletedValue()
    eventSet,         \* signalled state of the auto-reset events handles_[i]
    eventRegs,        \* pending SetEventOnCompletion registrations
    commandQueue,     \* work enqueued on commandQueue_, not yet retired
    listState,        \* state of commandLists_[i]
    pc,               \* position of the frame-producer thread
    waitIndex,        \* argument of the wait() in progress
    waitRet,          \* position the wait() in progress returns to
    frameCount,       \* frames begun so far
    submitLog,        \* history: fence value recorded by each endFrame
    waitPath,         \* history: how the last wait() returned
    nonRenderingRelatedSynchronizationObject_,  \* the second fence object, entry 0
    uploadCount,      \* createTexture2D calls so far
    \* ---- HeapAllocator ----
    defaultDescriptorHeapSize_,  \* HeapAllocator::defaultDescriptorHeapSize_
    descriptorHeaps_, \* HeapAllocator::descriptorHeaps_: name -> DescriptorHeap
    heapSerial,       \* identities given to ID3D12DescriptorHeap objects so far
    issued,           \* history: per arena, the (heap, slot) each writer call was handed
    lastWrite,        \* history: the last completed writeOnDescriptorHeap call
    heapOps,          \* writeOnDescriptorHeap calls so far
    heapFault,        \* an out-of-bounds descriptor access ended the process
    \* ---- DX12Compiler / RenderPipeline / draw ----
    pipelinePc,       \* outcome of createRenderPipeline: none, created, failed, crashed
    shaders_,         \* RenderPipeline::shaders_
    requiredConstantBuffers_,      \* RenderPipeline::requiredConstantBuffers_
    requiredShaderResourceViews_,  \* RenderPipeline::requiredShaderResourceViews_
    requiredSamplers_,             \* RenderPipeline::requiredSamplers_
    mappedMemory,     \* content of the upload resources, per 256-byte block
    rootArguments,    \* root index -> GPU address set by the last draw
    bound,            \* history: (name, stage) -> data last copied by bindBuffer
    lastCall,         \* history: the last bindBuffer or draw call and its error
    pipeOps,          \* bindBuffer and draw calls so far
    \* ---- HeapAllocator used from two threads ----
    sharedHeap,       \* the DescriptorHeap both threads write on
    threads,          \* per thread: position in writeOnDescriptorHeap and locals
    \* ---- SynchronizationObject lifetimes (event handle ownership) ----
    header,           \* which of the two SynchronizationObject definitions is built
    objects,          \* per object: lifetime state, handles_ and bufferCount_
    closeCalls,       \* per created event handle: number of CloseHandle calls on it
    \* ---- FastArray ----
    fastArrays,           \* per FastArray object: storage_, size_, capacity_
    lastPush          \* the placement new of the latest pushBack / emplaceBack

frameVars == << bufferCount_, frameIndex_, backBufferIndex, values_, currentValue_,
                completedValue, eventSet, eventRegs, commandQueue, listState, pc,
                waitIndex, waitRet, frameCount, submitLog, waitPath,
                nonRenderingRelatedSynchronizationObject_, uploadCount >>

\* the variables of the background (non-rendering) context
backgroundVars == << nonRenderingRelatedSynchronizationObject_, uploadCount >>

heapVars == << defaultDescriptorHeapSize_, descriptorHeaps_, heapSerial, issued,
               lastWrite, heapOps, heapFault >>

pipeVars == << pipelinePc, shaders_, requiredConstantBuffers_,
               requiredShaderResourceViews_, requiredSamplers_, mappedMemory,
               rootArguments, bound, lastCall, pipeOps >>

threadVars == << sharedHeap, threads >>

handleVars == << header, objects, closeCalls >>

arrayVars == << fastArrays, lastPush >>

vars == << frameVars, heapVars, pipeVars, threadVars, handleVars, arrayVars >>

nonFrameVars == << heapVars, pipeVars, threadVars, handleVars, arrayVars >>

nonHeapVars == << frameVars, pipeVars, threadVars, handleVars, arrayVars >>

nonPipeVars == << frameVars, heapVars, threadVars, handleVars, arrayVars >>

nonThreadVars == << frameVars, heapVars, pipeVars, handleVars, arrayVars >>

nonHandleVars == << frameVars, heapVars, pipeVars, threadVars, arrayVars >>

nonArrayVars == << frameVars, heapVars, pipeVars, threadVars, handleVars >>

\* the state of the FastArray variables while another component runs
ArraysIdle ==
    /\ fastArrays = << >>
    /\ lastPush = << >>

\* the state of the handle-ownership variables while another component runs
HandlesIdle ==
    /\ header = "none"
    /\ objects = << >>
    /\ closeCalls = << >>

\* the state of the two-thread variables while another component runs
ThreadsIdle ==
    /\ sharedHeap = << >>
    /\ threads = << >>

Indices == 0 .. (bufferCount_ - 1)

\* SynchronizationObject(device, threadCount_) as constructed: fence at 0,
\* values_ zeroed, events unsignalled; only entry 0 is ever used
newSynchronizationObject ==
    [values_ |-> [i \in {0} |-> 0], currentValue_ |-> 0, completedValue |-> 0,
     eventSet |-> FALSE, eventRegs |-> {}]

\* the state of the frame cycle's variables while another component runs
FrameIdle ==
    /\ bufferCount_ = 2
    /\ frameIndex_ = 0
    /\ backBufferIndex = 0
    /\ values_ = << >>
    /\ currentValue_ = 0
    /\ completedValue = 0
    /\ eventSet = << >>
    /\ eventRegs = {}
    /\ commandQueue = << >>
    /\ listState = << >>
    /\ pc = "idle"
    /\ waitIndex = 0
    /\ waitRet = "idle"
    /\ frameCount = 0
    /\ submitLog = {}
    /\ waitPath = "none"
    /\ nonRenderingRelatedSynchronizationObject_ = newSynchronizationObject
    /\ uploadCount = 0

NoCall == [op |-> "none", error |-> ""]

\* the state of the pipeline's variables before createRenderPipeline
PipeIdle ==
    /\ pipelinePc = "none"
    /\ shaders_ = << >>
    /\ requiredConstantBuffers_ = << >>
    /\ requiredShaderResourceViews_ = << >>
    /\ requiredSamplers_ = << >>
    /\ mappedMemory = << >>
    /\ rootArguments = << >>
    /\ bound = << >>
    /\ lastCall = NoCall
    /\ pipeOps = 0

(***************************************************************************)
(* HeapAllocator (descriptor arenas)                                       *)
(* A DescriptorHeap is [heap, table, cpuHandle, gpuHandle, size, capacity]:*)
(* heap is the identity of the ID3D12DescriptorHeap, table[i + 1] the      *)
(* content of its slot i, the handles are slot offsets from the heap start.*)
(* Slot contents: "U" never written, "G" copied from outside a table, k the*)
(* descriptor written by the k-th writer call on the arena.                *)
(***************************************************************************)
ArenaNames == {"CBV_SRV_UAV", "SAMPLER"}

NoWrite == [op |-> "none"]

\* the state of the allocator's variables while another component runs
HeapIdle ==
    /\ defaultDescriptorHeapSize_ = 0
    /\ descriptorHeaps_ = << >>
    /\ heapSerial = 0
    /\ issued = [n \in ArenaNames |-> << >>]
    /\ lastWrite = NoWrite
    /\ heapOps = 0
    /\ heapFault = FALSE

Max(a, b) == IF a >= b THEN a ELSE b

Min(a, b) == IF a <= b THEN a ELSE b

\* createDescriptorHeap: a new heap of the given size, handles at its start
newDescriptorHeap(id, descriptorHeapSize) ==
    [heap |-> id, table |-> [i \in 1 .. descriptorHeapSize |-> "U"],
     cpuHandle |-> 0, gpuHandle |-> 0, size |-> 0, capacity |-> descriptorHeapSize]

\* createDescriptorHeap(name, type, flags) and createDescriptorHeap(name, size,
\* type, flags): emplace keeps an entry that already has the name
createDescriptorHeap(name, descriptorHeapSize) ==
    /\ ~heapFault
    /\ heapSerial' = IF name \in DOMAIN descriptorHeaps_ THEN heapSerial
                                                          ELSE heapSerial + 1
    /\ descriptorHeaps_' =
           IF name \in DOMAIN descriptorHeaps_
              THEN descriptorHeaps_
              ELSE [n \in DOMAIN descriptorHeaps_ \cup {name} |->
                       IF n = name
                          THEN newDescriptorHeap(heapSerial + 1, descriptorHeapSize)
                          ELSE descriptorHeaps_[n]]
    /\ UNCHANGED << defaultDescriptorHeapSize_, issued, lastWrite, heapOps, heapFault >>
    /\ UNCHANGED nonHeapVars

\* a growth test that never fires: bug variant of needsReallocation
needsReallocationNever(size, capacity) == FALSE

\* writeOnDescriptorHeap: descriptorHeap->size > descriptorHeap->capacity
needsReallocation(size, capacity) == size > capacity

\* a growth by one slot only: bug variant of newCapacity
newCapacityPlusOne(capacity, size) == capacity + 1

\* writeOnDescriptorHeap: std::max(descriptorHeap->capacity * 2, descriptorHeap->size)
newCapacity(capacity, size) == Max(capacity * 2, size)

\* a reallocation that copies nothing: bug variant of copyCountOf
copyCountNone(size, capacity) == 0

\* reallocateDescriptorHeap: std::min(descriptorHeap->size, newCapacity)
copyCountOf(size, capacity) == Min(size, capacity)

\* reallocateDescriptorHeap(descriptorHeap, newCapacity): h.size is the size
\* the caller already incremented; CopyDescriptorsSimple copies copyCount
\* slots from the old heap start, those past the old table yield "G"
reallocateDescriptorHeap(h, capacity, id) ==
    LET copyCount == copyCountOf(h.size, capacity) IN
    [heap |-> id,
     table |-> [i \in 1 .. capacity |->
                   IF i <= copyCount
                      THEN IF i <= h.capacity THEN h.table[i] ELSE "G"
                      ELSE "U"],
     cpuHandle |-> copyCount, gpuHandle |-> copyCount,
     size |-> copyCount, capacity |-> capacity]

\* the slots the writer callback is handed: descriptorHeap->cpuHandle, moved
\* on by one slot after each call
writerSlots(h, operationCount) ==
    [k \in 1 .. operationCount |-> h.cpuHandle + (k - 1)]

\* the operationCount calls of fn(descriptorHeap, args...) and the Offset(1)
\* of both handles after each; first is the ordinal of the first call.  A
\* write past the table does not land in it.
writeLoop(h, operationCount, first) ==
    [h EXCEPT
        !.table = [i \in 1 .. h.capacity |->
                      IF /\ i - 1 >= h.cpuHandle
                         /\ i - 1 < h.cpuHandle + operationCount
                         THEN first + (i - 1 - h.cpuHandle)
                         ELSE h.table[i]],
        !.cpuHandle = h.cpuHandle + operationCount,
        !.gpuHandle = h.gpuHandle + operationCount]

\* writeOnDescriptorHeap up to the writer loop: size += operationCount, then
\* the reallocation when the size exceeds the capacity
grownHeap(h, operationCount, id) ==
    LET sized == [h EXCEPT !.size = h.size + operationCount] IN
    IF needsReallocation(sized.size, sized.capacity)
       THEN reallocateDescriptorHeap(sized, newCapacity(sized.capacity, sized.size), id)
       ELSE sized

\* the call read a slot outside the old table or wrote one outside the live one
outOfBounds(h, operationCount) ==
    LET g == grownHeap(h, operationCount, 0) IN
    \/ /\ needsReallocation(h.size + operationCount, h.capacity)
       /\ g.size > h.capacity
    \/ g.cpuHandle + operationCount > g.capacity

\* writeOnDescriptorHeap(id, operationCount, fn, args...) and its overload
\* taking the DescriptorHeap*; fault: an out-of-bounds descriptor access of
\* the call ends the process instead of going unnoticed
writeOnDescriptorHeap(id, operationCount, fault) ==
    /\ ~heapFault
    /\ heapOps < MaxHeapOps
    /\ heapOps' = heapOps + 1
    /\ IF id \notin DOMAIN descriptorHeaps_
          THEN /\ ~fault
               /\ lastWrite' = [op |-> "error", id |-> id,
                                error |-> "Descriptor Heap not found"]
               /\ UNCHANGED << descriptorHeaps_, heapSerial, issued, heapFault >>
          ELSE LET h == descriptorHeaps_[id]
                   g == grownHeap(h, operationCount, heapSerial + 1)
                   w == writeLoop(g, operationCount, Len(issued[id]) + 1)
                   slots == writerSlots(g, operationCount)
               IN IF fault
                     THEN /\ outOfBounds(h, operationCount)
                          /\ heapFault' = TRUE
                          /\ UNCHANGED << descriptorHeaps_, heapSerial, issued, lastWrite >>
                     ELSE /\ descriptorHeaps_' = [descriptorHeaps_ EXCEPT ![id] = w]
                          /\ heapSerial' = IF g.heap = h.heap THEN heapSerial
                                                             ELSE heapSerial + 1
                          /\ issued' = [issued EXCEPT ![id] = @ \o
                                 [k \in 1 .. operationCount |->
                                     [heap |-> g.heap, slot |-> slots[k]]]]
                          /\ lastWrite' = [op |-> "write", id |-> id,
                                 count |-> operationCount,
                                 sizeBefore |-> h.size, capacityBefore |-> h.capacity,
                                 tableBefore |-> h.table, heapBefore |-> h.heap,
                                 copied |-> IF g.heap = h.heap THEN 0 ELSE g.size,
                                 written |-> slots]
                          /\ UNCHANGED heapFault
    /\ UNCHANGED defaultDescriptorHeapSize_
    /\ UNCHANGED nonHeapVars

\* HeapAllocator(device, defaultDescriptorHeapSize)
InitHeap ==
    /\ defaultDescriptorHeapSize_ \in 1 .. MaxCapacity
    /\ descriptorHeaps_ = << >>
    /\ heapSerial = 0
    /\ issued = [n \in ArenaNames |-> << >>]
    /\ lastWrite = NoWrite
    /\ heapOps = 0
    /\ heapFault = FALSE
    /\ FrameIdle
    /\ PipeIdle
    /\ ThreadsIdle
    /\ HandlesIdle
    /\ ArraysIdle

NextHeap ==
    \/ \E name \in ArenaNames : createDescriptorHeap(name, defaultDescriptorHeapSize_)
    \/ \E name \in ArenaNames, size \in 1 .. MaxCapacity :
           createDescriptorHeap(name, size)
    \/ \E id \in ArenaNames, operationCount \in 1 .. MaxCount, fault \in BOOLEAN :
           writeOnDescriptorHeap(id, operationCount, fault)

SpecHeap == InitHeap /\ [][NextHeap]_vars

(***************************************************************************)
(* HeapAllocator::writeOnDescriptorHeap called from two threads on one     *)
(* arena.  The function takes no lock, so its statements interleave: the   *)
(* read and the write of size += operationCount, the growth, each call of  *)
(* the writer and each Offset of the handles are steps of their own.       *)
(***************************************************************************)
Threads == {1, 2}

\* thread t has not called yet
notCalled == [pc |-> "idle", operationCount |-> 0, size |-> 0, written |-> << >>]

\* thread t calls writeOnDescriptorHeap(descriptorHeap, operationCount, fn)
threadCall(t, operationCount) ==
    /\ threads[t].pc = "idle"
    /\ threads' = [threads EXCEPT ![t].pc = "load",
                                  ![t].operationCount = operationCount]
    /\ UNCHANGED sharedHeap
    /\ UNCHANGED nonThreadVars

\* descriptorHeap->size += operationCount, the read of size
threadLoadSize(t) ==
    /\ threads[t].pc = "load"
    /\ threads' = [threads EXCEPT ![t].pc = "store", ![t].size = sharedHeap.size]
    /\ UNCHANGED sharedHeap
    /\ UNCHANGED nonThreadVars

\* descriptorHeap->size += operationCount, the write of size
threadStoreSize(t) ==
    /\ threads[t].pc = "store"
    /\ sharedHeap' = [sharedHeap EXCEPT
                         !.size = threads[t].size + threads[t].operationCount]
    /\ threads' = [threads EXCEPT ![t].pc = "grow"]
    /\ UNCHANGED nonThreadVars

\* if (size > capacity) reallocateDescriptorHeap(descriptorHeap, max(...))
threadGrow(t) ==
    /\ threads[t].pc = "grow"
    /\ sharedHeap' =
           IF needsReallocation(sharedHeap.size, sharedHeap.capacity)
              THEN reallocateDescriptorHeap(sharedHeap,
                       newCapacity(sharedHeap.capacity, sharedHeap.size),
                       sharedHeap.heap + 1)
              ELSE sharedHeap
    /\ threads' = [threads EXCEPT ![t].pc = "write"]
    /\ UNCHANGED nonThreadVars

\* fn(descriptorHeap, args...): the writer initialises the slot at cpuHandle
threadWrite(t) ==
    /\ threads[t].pc = "write"
    /\ sharedHeap' = [sharedHeap EXCEPT
           !.table = [i \in 1 .. sharedHeap.capacity |->
                         IF i - 1 = sharedHeap.cpuHandle THEN t
                                                         ELSE sharedHeap.table[i]]]
    /\ threads' = [threads EXCEPT
           ![t].pc = "offset",
           ![t].written = Append(@, [heap |-> sharedHeap.heap,
                                     slot |-> sharedHeap.cpuHandle])]
    /\ UNCHANGED nonThreadVars

\* cpuHandle.Offset(1, ...); gpuHandle.Offset(1, ...); ++i
threadOffset(t) ==
    /\ threads[t].pc = "offset"
    /\ sharedHeap' = [sharedHeap EXCEPT !.cpuHandle = @ + 1, !.gpuHandle = @ + 1]
    /\ threads' = [threads EXCEPT
           ![t].pc = IF Len(threads[t].written) < threads[t].operationCount
                        THEN "write" ELSE "done"]
    /\ UNCHANGED nonThreadVars

\* one arena as createDescriptorHeap leaves it, no call made yet
InitThreads ==
    /\ \E capacity \in 1 .. MaxCapacity :
           sharedHeap = newDescriptorHeap(1, capacity)
    /\ threads = [t \in Threads |-> notCalled]
    /\ FrameIdle
    /\ HeapIdle
    /\ PipeIdle
    /\ HandlesIdle
    /\ ArraysIdle

NextThreads ==
    \/ \E t \in Threads, operationCount \in 1 .. MaxCount :
           threadCall(t, operationCount)
    \/ \E t \in Threads : threadLoadSize(t)
    \/ \E t \in Threads : threadStoreSize(t)
    \/ \E t \in Threads : threadGrow(t)
    \/ \E t \in Threads : threadWrite(t)
    \/ \E t \in Threads : threadOffset(t)

SpecThreads == InitThreads /\ [][NextThreads]_vars

(***************************************************************************)
(* SynchronizationObject                                                   *)
(***************************************************************************)

\* a wait that always takes the event path: bug variant of waitMustBlock
waitMustBlockAlways(index) == TRUE

\* a wait that also blocks on an equal value: bug variant of waitMustBlock
waitMustBlockOnEqual(index) == completedValue <= values_[index]

\* a wait that compares off by one: bug variant of waitMustBlock
waitMustBlockOffByOne(index) == completedValue + 1 < values_[index]

\* wait(), its test: fence_->GetCompletedValue() < values_[index]
waitMustBlock(index) == completedValue < values_[index]

\* the caller's call of wait(index); ret is where the caller goes on
waitCall(index, ret) ==
    /\ waitIndex' = index
    /\ waitRet' = ret
    /\ pc' = "wait_check"

\* wait(index): the GetCompletedValue() test; no-op when already satisfied
waitCheck ==
    /\ pc = "wait_check"
    /\ IF waitMustBlock(waitIndex)
          THEN /\ pc' = "wait_set"
               /\ UNCHANGED waitPath
          ELSE /\ pc' = waitRet
               /\ waitPath' = IF waitPath = "again" THEN "again fast" ELSE "fast"
    /\ UNCHANGED << bufferCount_, frameIndex_, backBufferIndex, values_, currentValue_,
                    completedValue, eventSet, eventRegs, commandQueue, listState,
                    waitIndex, waitRet, frameCount, submitLog >>
    /\ UNCHANGED backgroundVars
    /\ UNCHANGED nonFrameVars

\* wait(index) called once more right after it returned, before any signal
waitAgain ==
    /\ pc = "reset"
    /\ waitCall(waitIndex, waitRet)
    /\ waitPath' = "again"
    /\ UNCHANGED << bufferCount_, frameIndex_, backBufferIndex, values_, currentValue_,
                    completedValue, eventSet, eventRegs, commandQueue, listState,
                    frameCount, submitLog >>
    /\ UNCHANGED backgroundVars
    /\ UNCHANGED nonFrameVars

\* fence_->SetEventOnCompletion(values_[index], handle): the event is set at
\* once when the fence already reached the value, else when it reaches it
waitSetEvent ==
    /\ pc = "wait_set"
    /\ IF completedValue >= values_[waitIndex]
          THEN /\ eventSet' = [eventSet EXCEPT ![waitIndex] = TRUE]
               /\ UNCHANGED eventRegs
          ELSE /\ eventRegs' = eventRegs \cup
                       {[value |-> values_[waitIndex], handle |-> waitIndex]}
               /\ UNCHANGED eventSet
    /\ pc' = "wait_block"
    /\ UNCHANGED << bufferCount_, frameIndex_, backBufferIndex, values_, currentValue_,
                    completedValue, commandQueue, listState, waitIndex, waitRet,
                    frameCount, submitLog, waitPath >>
    /\ UNCHANGED backgroundVars
    /\ UNCHANGED nonFrameVars

\* WaitForSingleObject(handle, INFINITE) on an auto-reset event
waitBlock ==
    /\ pc = "wait_block"
    /\ eventSet[waitIndex]
    /\ eventSet' = [eventSet EXCEPT ![waitIndex] = FALSE]
    /\ pc' = waitRet
    /\ waitPath' = "blocked"
    /\ UNCHANGED << bufferCount_, frameIndex_, backBufferIndex, values_, currentValue_,
                    completedValue, eventRegs, commandQueue, listState, waitIndex,
                    waitRet, frameCount, submitLog >>
    /\ UNCHANGED backgroundVars
    /\ UNCHANGED nonFrameVars

\* a signal that records the value before incrementing: bug variant of signalValues
signalValuesStale(index) == [values_ EXCEPT ![index] = currentValue_]

\* a signal that records the new value in every slot: bug variant of signalValues
signalValuesEverySlot(index) == [i \in DOMAIN values_ |-> currentValue_ + 1]

\* signal(queue, index): currentValue_++; values_[index] = currentValue_
signalValues(index) == [values_ EXCEPT ![index] = currentValue_ + 1]

\* a Signal of the value before the increment: bug variant of signalQueue
signalQueueStale(q) == Append(q, [kind |-> "signal", arg |-> currentValue_])

\* signal(queue, index): queue->Signal(fence_, currentValue_)
signalQueue(q) == Append(q, [kind |-> "signal", arg |-> currentValue_ + 1])

(***************************************************************************)
(* DX12Renderer frame cycle                                                *)
(***************************************************************************)

\* a beginFrame that resets without waiting: bug variant of beginFrame
beginFrameNoWait ==
    /\ pc = "loop"
    /\ frameCount < MaxFrames
    /\ frameIndex_' = backBufferIndex
    /\ waitIndex' = backBufferIndex
    /\ waitRet' = "reset"
    /\ pc' = "reset"
    /\ frameCount' = frameCount + 1
    /\ UNCHANGED << bufferCount_, backBufferIndex, values_, currentValue_, completedValue,
                    eventSet, eventRegs, commandQueue, listState, submitLog, waitPath >>
    /\ UNCHANGED backgroundVars
    /\ UNCHANGED nonFrameVars

\* beginFrame(): read the back-buffer index, wait(frameIndex_)
beginFrame ==
    /\ pc = "loop"
    /\ frameCount < MaxFrames
    /\ frameIndex_' = backBufferIndex
    /\ waitCall(backBufferIndex, "reset")
    /\ frameCount' = frameCount + 1
    /\ UNCHANGED << bufferCount_, backBufferIndex, values_, currentValue_, completedValue,
                    eventSet, eventRegs, commandQueue, listState, submitLog, waitPath >>
    /\ UNCHANGED backgroundVars
    /\ UNCHANGED nonFrameVars

\* beginFrame(), after the wait: reset the command allocator and the list
beginFrameReset ==
    /\ pc = "reset"
    /\ listState' = [listState EXCEPT ![frameIndex_] = "recording"]
    /\ pc' = "draw"
    /\ UNCHANGED << bufferCount_, frameIndex_, backBufferIndex, values_, currentValue_,
                    completedValue, eventSet, eventRegs, commandQueue, waitIndex,
                    waitRet, frameCount, submitLog, waitPath >>
    /\ UNCHANGED backgroundVars
    /\ UNCHANGED nonFrameVars

\* draw(): records into commandLists_[frameIndex_]
drawRecord ==
    /\ pc = "draw"
    /\ pc' = "end"
    /\ UNCHANGED << bufferCount_, frameIndex_, backBufferIndex, values_, currentValue_,
                    completedValue, eventSet, eventRegs, commandQueue, listState,
                    waitIndex, waitRet, frameCount, submitLog, waitPath >>
    /\ UNCHANGED backgroundVars
    /\ UNCHANGED nonFrameVars

\* endFrame(): Close, ExecuteCommandLists, signal(commandQueue_, frameIndex_)
endFrame ==
    /\ pc = "end"
    /\ listState' = [listState EXCEPT ![frameIndex_] = "closed"]
    /\ commandQueue' = signalQueue(Append(commandQueue,
                           [kind |-> "exec", arg |-> frameIndex_]))
    /\ currentValue_' = currentValue_ + 1
    /\ values_' = signalValues(frameIndex_)
    /\ submitLog' = submitLog \cup
           {[index |-> frameIndex_, frame |-> frameCount, value |-> values_'[frameIndex_]]}
    /\ pc' = "present"
    /\ UNCHANGED << bufferCount_, frameIndex_, backBufferIndex, completedValue, eventSet,
                    eventRegs, waitIndex, waitRet, frameCount, waitPath >>
    /\ UNCHANGED backgroundVars
    /\ UNCHANGED nonFrameVars

\* present(): the swap chain moves on to the next back buffer
present ==
    /\ pc = "present"
    /\ backBufferIndex' = (backBufferIndex + 1) % bufferCount_
    /\ pc' = "loop"
    /\ UNCHANGED << bufferCount_, frameIndex_, values_, currentValue_, completedValue,
                    eventSet, eventRegs, commandQueue, listState, waitIndex, waitRet,
                    frameCount, submitLog, waitPath >>
    /\ UNCHANGED backgroundVars
    /\ UNCHANGED nonFrameVars

\* ~DX12Renderer(): signal(commandQueue_, frameIndex_); wait(frameIndex_)
destroyRenderer ==
    /\ pc = "loop"
    /\ commandQueue' = signalQueue(commandQueue)
    /\ currentValue_' = currentValue_ + 1
    /\ values_' = signalValues(frameIndex_)
    /\ waitCall(frameIndex_, "destroyed")
    /\ UNCHANGED << bufferCount_, frameIndex_, backBufferIndex, completedValue, eventSet,
                    eventRegs, listState, frameCount, submitLog, waitPath >>
    /\ UNCHANGED backgroundVars
    /\ UNCHANGED nonFrameVars

\* createTexture2D(path, ...): Reset of nonRenderingRelatedCommandAllocators_[0]
\* and of the list, the upload is recorded, Close, ExecuteCommandLists; no
\* fence is waited on before and none is signaled after
createTexture2D ==
    /\ pc = "loop"
    /\ uploadCount < MaxUploads
    /\ uploadCount' = uploadCount + 1
    /\ commandQueue' = Append(commandQueue, [kind |-> "upload", arg |-> 0])
    /\ UNCHANGED << bufferCount_, frameIndex_, backBufferIndex, values_, currentValue_,
                    completedValue, eventSet, eventRegs, listState, pc, waitIndex,
                    waitRet, frameCount, submitLog, waitPath,
                    nonRenderingRelatedSynchronizationObject_ >>
    /\ UNCHANGED nonFrameVars

\* a second wait that never blocks: bug variant of nonRenderingMustBlock
nonRenderingMustBlockNever == FALSE

\* wait(0) on the second fence object, its test
nonRenderingMustBlock ==
    nonRenderingRelatedSynchronizationObject_.completedValue
        < nonRenderingRelatedSynchronizationObject_.values_[0]

\* ~DX12Renderer(), second part:
\* nonRenderingRelatedSynchronizationObject_->signal(commandQueue_, 0), wait(0)
destroyNonRendering ==
    /\ pc = "destroyed"
    /\ LET so == nonRenderingRelatedSynchronizationObject_ IN
        /\ nonRenderingRelatedSynchronizationObject_' =
               [so EXCEPT !.currentValue_ = so.currentValue_ + 1,
                          !.values_[0] = so.currentValue_ + 1]
        /\ commandQueue' = Append(commandQueue,
               [kind |-> "signal nonRendering", arg |-> so.currentValue_ + 1])
    /\ pc' = "nonRendering_wait_check"
    /\ UNCHANGED << bufferCount_, frameIndex_, backBufferIndex, values_, currentValue_,
                    completedValue, eventSet, eventRegs, listState, waitIndex,
                    waitRet, frameCount, submitLog, waitPath, uploadCount >>
    /\ UNCHANGED nonFrameVars

\* wait(0) of the destructor: the GetCompletedValue() test; past it the
\* destructor goes on to delete the allocators and lists
nonRenderingWaitCheck ==
    /\ pc = "nonRendering_wait_check"
    /\ pc' = IF nonRenderingMustBlock THEN "nonRendering_wait_set" ELSE "deleted"
    /\ UNCHANGED << bufferCount_, frameIndex_, backBufferIndex, values_, currentValue_,
                    completedValue, eventSet, eventRegs, commandQueue, listState,
                    waitIndex, waitRet, frameCount, submitLog, waitPath >>
    /\ UNCHANGED backgroundVars
    /\ UNCHANGED nonFrameVars

\* wait(0) of the destructor: SetEventOnCompletion(values_[0], handles_[0])
nonRenderingWaitSetEvent ==
    /\ pc = "nonRendering_wait_set"
    /\ LET so == nonRenderingRelatedSynchronizationObject_ IN
        nonRenderingRelatedSynchronizationObject_' =
            IF so.completedValue >= so.values_[0]
               THEN [so EXCEPT !.eventSet = TRUE]
               ELSE [so EXCEPT !.eventRegs = @ \cup {so.values_[0]}]
    /\ pc' = "nonRendering_wait_block"
    /\ UNCHANGED << bufferCount_, frameIndex_, backBufferIndex, values_, currentValue_,
                    completedValue, eventSet, eventRegs, commandQueue, listState,
                    waitIndex, waitRet, frameCount, submitLog, waitPath, uploadCount >>
    /\ UNCHANGED nonFrameVars

\* wait(0) of the destructor: WaitForSingleObject(handles_[0], INFINITE)
nonRenderingWaitBlock ==
    /\ pc = "nonRendering_wait_block"
    /\ nonRenderingRelatedSynchronizationObject_.eventSet
    /\ nonRenderingRelatedSynchronizationObject_' =
           [nonRenderingRelatedSynchronizationObject_ EXCEPT !.eventSet = FALSE]
    /\ pc' = "deleted"
    /\ UNCHANGED << bufferCount_, frameIndex_, backBufferIndex, values_, currentValue_,
                    completedValue, eventSet, eventRegs, commandQueue, listState,
                    waitIndex, waitRet, frameCount, submitLog, waitPath, uploadCount >>
    /\ UNCHANGED nonFrameVars

(***************************************************************************)
(* The GPU: retires the head of the queue; a Signal sets the fence it      *)
(* names and fires the registered events whose value is reached.           *)
(***************************************************************************)
gpuStep ==
    /\ commandQueue # << >>
    /\ LET head == Head(commandQueue)
           so == nonRenderingRelatedSynchronizationObject_ IN
         IF head.kind = "signal"
            THEN /\ completedValue' = head.arg
                 /\ eventSet' = [i \in DOMAIN eventSet |->
                        eventSet[i] \/ \E r \in eventRegs :
                                          r.handle = i /\ r.value <= head.arg]
                 /\ eventRegs' = {r \in eventRegs : r.value > head.arg}
                 /\ UNCHANGED nonRenderingRelatedSynchronizationObject_
         ELSE IF head.kind = "signal nonRendering"
            THEN /\ nonRenderingRelatedSynchronizationObject_' =
                        [so EXCEPT !.completedValue = head.arg,
                                   !.eventSet = @ \/ \E v \in so.eventRegs : v <= head.arg,
                                   !.eventRegs = {v \in so.eventRegs : v > head.arg}]
                 /\ UNCHANGED << completedValue, eventSet, eventRegs >>
         ELSE UNCHANGED << completedValue, eventSet, eventRegs,
                           nonRenderingRelatedSynchronizationObject_ >>
    /\ commandQueue' = Tail(commandQueue)
    /\ UNCHANGED << bufferCount_, frameIndex_, backBufferIndex, values_, currentValue_,
                    listState, pc, waitIndex, waitRet, frameCount, submitLog, waitPath,
                    uploadCount >>
    /\ UNCHANGED nonFrameVars

\* DX12Renderer(): frameIndex_(0), SynchronizationObject(device, bufferCount)
InitFrame ==
    /\ bufferCount_ \in 2 .. MaxBufferCount
    /\ frameIndex_ = 0
    /\ backBufferIndex = 0
    /\ values_ = [i \in 0 .. (bufferCount_ - 1) |-> 0]
    /\ currentValue_ = 0
    /\ completedValue = 0
    /\ eventSet = [i \in 0 .. (bufferCount_ - 1) |-> FALSE]
    /\ eventRegs = {}
    /\ commandQueue = << >>
    /\ listState = [i \in 0 .. (bufferCount_ - 1) |-> "closed"]
    /\ pc = "loop"
    /\ waitIndex = 0
    /\ waitRet = "reset"
    /\ frameCount = 0
    /\ submitLog = {}
    /\ waitPath = "none"
    /\ nonRenderingRelatedSynchronizationObject_ = newSynchronizationObject
    /\ uploadCount = 0
    /\ HeapIdle
    /\ PipeIdle
    /\ ThreadsIdle
    /\ HandlesIdle
    /\ ArraysIdle

NextFrame ==
    \/ beginFrame
    \/ waitCheck
    \/ waitSetEvent
    \/ waitBlock
    \/ waitAgain
    \/ beginFrameReset
    \/ drawRecord
    \/ endFrame
    \/ present
    \/ destroyRenderer
    \/ createTexture2D
    \/ destroyNonRendering
    \/ nonRenderingWaitCheck
    \/ nonRenderingWaitSetEvent
    \/ nonRenderingWaitBlock
    \/ gpuStep

SpecFrame == InitFrame /\ [][NextFrame]_vars

(***************************************************************************)
(* Render pipeline: DX12Compiler::createRenderPipeline, ConstantBuffer,    *)
(* RenderPipeline::bindBuffer and the root arguments of DX12Renderer::draw *)
(* A shader source is the sequence of resources it declares, in the order  *)
(* the reflection reports them: [name, type, size].  The registries are    *)
(* functions from <<name, stage>> keys.  Upload memory is kept per         *)
(* 256-byte block; a copy touches the blocks its sizeof(Ty) bytes reach.   *)
(***************************************************************************)
CBuffer(name, size) == [name |-> name, type |-> "D3D_SIT_CBUFFER", size |-> size]

Texture(name) == [name |-> name, type |-> "D3D_SIT_TEXTURE", size |-> 0]

SamplerState(name) == [name |-> name, type |-> "D3D_SIT_SAMPLER", size |-> 0]

\* the vertex shader of test.cpp: cbuffer frameData of three float4x4
vertexShaderSrc == << CBuffer("frameData", 192) >>

\* the pixel shader of test.cpp
pixelShaderSrc == << Texture("myTexture"), SamplerState("mySampler") >>

\* a vertex shader with a second constant buffer
twoBufferSrc == << CBuffer("frameData", 192), CBuffer("color", 16) >>

\* a pixel shader with two textures
twoTextureSrc == << Texture("myTexture"), Texture("normalMap") >>

\* a shader with one constant buffer only
colorSrc == << CBuffer("color", 16) >>

\* a shader with a constant buffer and a sampler, no texture
samplerSrc == << CBuffer("color", 16), SamplerState("mySampler") >>

\* a shader whose constant buffers align to different sizes
mixedSizeSrc == << CBuffer("material", 300), CBuffer("frameData", 192) >>

\* a shader that declares no resource
emptySrc == << >>

\* a source the compiler rejects
SyntaxError == [name |-> "", type |-> "error", size |-> 0]

\* a shader source that does not compile
brokenSrc == << SyntaxError >>

ShaderDescription(stage, source) == [stage |-> stage, pathOrSource |-> source]

\* the ShaderDescription arrays createRenderPipeline is called with
DescriptionLists ==
    { << ShaderDescription("STAGE_VERTEX", vertexShaderSrc),
         ShaderDescription("STAGE_PIXEL", pixelShaderSrc) >>,
      << ShaderDescription("STAGE_VERTEX", twoBufferSrc),
         ShaderDescription("STAGE_PIXEL", pixelShaderSrc) >>,
      << ShaderDescription("STAGE_VERTEX", twoBufferSrc),
         ShaderDescription("STAGE_PIXEL", colorSrc) >>,
      << ShaderDescription("STAGE_VERTEX", mixedSizeSrc),
         ShaderDescription("STAGE_PIXEL", samplerSrc) >>,
      << ShaderDescription("STAGE_VERTEX", vertexShaderSrc) >>,
      << ShaderDescription("STAGE_VERTEX", vertexShaderSrc),
         ShaderDescription("STAGE_PIXEL", twoTextureSrc) >>,
      << ShaderDescription("STAGE_PIXEL", twoBufferSrc) >>,
      << ShaderDescription("STAGE_VERTEX", vertexShaderSrc),
         ShaderDescription("STAGE_VERTEX", twoBufferSrc) >>,
      << ShaderDescription("STAGE_ALL", vertexShaderSrc) >>,
      << ShaderDescription("STAGE_VERTEX", vertexShaderSrc),
         ShaderDescription("STAGE_ALL", colorSrc) >>,
      << ShaderDescription("STAGE_VERTEX", brokenSrc) >>,
      << ShaderDescription("STAGE_VERTEX", mixedSizeSrc) >>,
      << ShaderDescription("STAGE_VERTEX", emptySrc) >>,
      << ShaderDescription("STAGE_VERTEX", emptySrc),
         ShaderDescription("STAGE_PIXEL", colorSrc) >>,
      << ShaderDescription("STAGE_VERTEX", vertexShaderSrc),
         ShaderDescription("STAGE_PIXEL", brokenSrc) >> }

IsConstantBuffer(b) == b.type = "D3D_SIT_CBUFFER"

\* reflectShaderResourceViews keeps textures, structured and byte-address buffers
IsShaderResourceView(b) ==
    b.type \in {"D3D_SIT_TEXTURE", "D3D_SIT_STRUCTURED", "D3D_SIT_BYTEADDRESS"}

\* a reflection that reports every resource as a sampler: bug variant of IsSampler
IsSamplerAny(b) == TRUE

IsSampler(b) == b.type = "D3D_SIT_SAMPLER"

\* reflect(shaderBlob, stage): the ShaderData of a compiled shader
reflect(source, stage) ==
    [constantBuffers |-> SelectSeq(source, IsConstantBuffer),
     shaderResourceViews |-> SelectSeq(source, IsShaderResourceView),
     samplers |-> SelectSeq(source, IsSampler),
     shaderResourceBindingData |->
         [p \in DOMAIN source |->
             [name |-> source[p].name, type |-> source[p].type, stage |-> stage]]]

\* the Shader records pushed to renderPipeline.shaders_
compileAndReflect(descriptions) ==
    [i \in DOMAIN descriptions |->
        [stage |-> descriptions[i].stage,
         data |-> reflect(descriptions[i].pathOrSource, descriptions[i].stage)]]

\* std::unordered_map / flat_hash_map emplace: an existing key keeps its value
emplace(map, key, value) ==
    IF key \in DOMAIN map
       THEN map
       ELSE [k \in DOMAIN map \cup {key} |-> IF k = key THEN value ELSE map[k]]

RECURSIVE emplaceAll(_, _)
\* emplace of a sequence of [key, value] entries, in order
emplaceAll(map, entries) ==
    IF entries = << >>
       THEN map
       ELSE emplaceAll(emplace(map, Head(entries).key, Head(entries).value),
                       Tail(entries))

RECURSIVE Flatten(_)
\* the per-shader arrays visited shader by shader
Flatten(arrays) ==
    IF arrays = << >> THEN << >> ELSE Head(arrays) \o Flatten(Tail(arrays))

\* root indices that restart at 0 for every shader: bug variant of parametersSize
parametersSizeZero(shaders, i) == 0

RECURSIVE parametersSize(_, _)
\* parameters.size() when the root parameters of shader i are appended
parametersSize(shaders, i) ==
    IF i = 1
       THEN 0
       ELSE parametersSize(shaders, i - 1)
              + Len(shaders[i - 1].data.shaderResourceBindingData)

\* rootIndexMap: (binding name, stage) -> index of its root parameter
rootIndexMapOf(shaders) ==
    emplaceAll(<< >>,
        Flatten([i \in DOMAIN shaders |->
            [p \in DOMAIN shaders[i].data.shaderResourceBindingData |->
                [key |-> << shaders[i].data.shaderResourceBindingData[p].name,
                            shaders[i].data.shaderResourceBindingData[p].stage >>,
                 value |-> parametersSize(shaders, i) + (p - 1)]]]))

\* (size + 255) & ~255
alignedSize(size) == ((size + 255) \div 256) * 256

RECURSIVE offsetOf(_, _)
\* the running offset of createConstantBuffers when buffer i (from 1) is made
offsetOf(cbs, i) ==
    IF i = 1 THEN 0 ELSE offsetOf(cbs, i - 1) + alignedSize(cbs[i - 1].size)

\* totalSizeInBytes of createConstantBuffers
totalSizeInBytes(cbs) == offsetOf(cbs, Len(cbs) + 1)

\* ConstantBuffer::open() with index_ = i: Map, then + index_ * sizeInBytes_
open(index, sizeInBytes) == index * sizeInBytes

\* createConstantBuffers(names, sizes, stage): one upload resource for the
\* call; buffer i gets index_ = i, a view at the running offset, and is opened
createConstantBuffers(cbs, stage, resource) ==
    [i \in DOMAIN cbs |->
        [name_ |-> cbs[i].name,
         sizeInBytes_ |-> alignedSize(cbs[i].size),
         stage_ |-> stage,
         index_ |-> i - 1,
         resource_ |-> resource,
         bufferLocation |-> offsetOf(cbs, i),
         mappedData_ |-> open(i - 1, alignedSize(cbs[i].size))]]

\* createShaderResourceViews / createSamplers: view i gets index_ = i
createViews(views, stage) ==
    [i \in DOMAIN views |->
        [name_ |-> views[i].name, stage_ |-> stage, index_ |-> i - 1, data |-> 0]]

\* "Finish the ... creation": index_ from rootIndexMap, else the position in
\* the shader's array; then emplace under (name_, stage_)
registryOf(arrays, rootIndexMap) ==
    emplaceAll(<< >>,
        Flatten([i \in DOMAIN arrays |->
            [j \in DOMAIN arrays[i] |->
                LET key == << arrays[i][j].name_, arrays[i][j].stage_ >> IN
                [key |-> key,
                 value |-> [arrays[i][j] EXCEPT !.index_ =
                               IF key \in DOMAIN rootIndexMap
                                  THEN rootIndexMap[key]
                                  ELSE j - 1]]]]))

\* a compiler that accepts every stage: bug variant of hasStageAll
hasStageAllNever(descriptions) == FALSE

\* some shader is compiled for STAGE_ALL: compileShader throws
hasStageAll(descriptions) ==
    \E i \in DOMAIN descriptions : descriptions[i].stage = "STAGE_ALL"

\* some root parameter is made for a sampler binding:
\* mapResourceTypeToRootParameterType returns without a value
hasSamplerParameter(shaders) ==
    \E i \in DOMAIN shaders :
        \E p \in DOMAIN shaders[i].data.shaderResourceBindingData :
            IsSampler(shaders[i].data.shaderResourceBindingData[p])

\* some shader reflects a resource view: shaderResourceViewRawDataSize wraps
\* and createShaderResourceViews ends without a return value
hasShaderResourceView(shaders) ==
    \E i \in DOMAIN shaders : Len(shaders[i].data.shaderResourceViews) > 0

\* Compile() reports errors for some shader: the status GetStatus() stores
\* is never read and GetResult() hands back no usable blob
compileFails(descriptions) ==
    \E i \in DOMAIN descriptions :
        \E p \in DOMAIN descriptions[i].pathOrSource :
            descriptions[i].pathOrSource[p] = SyntaxError

\* what reflect() of the blob of a failed compile leads to: the checked
\* build throws from the container-reflection calls, otherwise the null
\* blob or the null reflection is dereferenced
BlobOutcomes == {"throw", "crash"}

\* createRenderPipeline<Policy>(descriptions).
\* rootType: what the indeterminate root parameter type of a sampler leads to
\*   ("valid": accepted; "throw": D3D12SerializeRootSignature fails and the
\*    error check throws; "crash": it fails unchecked and the blob is used);
\* srvReturn: what the resource-view step leads to ("crash", or the
\*   indeterminate ShaderResourceViews holds the views built or none)
createRenderPipeline(descriptions, rootType, srvReturn) ==
    /\ pipelinePc \in {"none", "failed"}
    /\ LET shaders == compileAndReflect(descriptions)
           rootIndexMap == rootIndexMapOf(shaders)
           constantBuffersArray ==
               [i \in DOMAIN shaders |->
                   createConstantBuffers(shaders[i].data.constantBuffers,
                                         shaders[i].stage, i)]
           shaderResourceViewArray ==
               [i \in DOMAIN shaders |->
                   IF srvReturn = "built"
                      THEN createViews(shaders[i].data.shaderResourceViews,
                                       shaders[i].stage)
                      ELSE << >>]
           samplerArray ==
               [i \in DOMAIN shaders |->
                   createViews(shaders[i].data.samplers, shaders[i].stage)]
       IN  IF hasStageAll(descriptions)
              THEN /\ pipelinePc' = "failed"
                   /\ lastCall' = [op |-> "createRenderPipeline",
                          error |-> "Impossible to create shader to all stages at once."]
                   /\ UNCHANGED << shaders_, requiredConstantBuffers_,
                                   requiredShaderResourceViews_, requiredSamplers_,
                                   mappedMemory >>
           ELSE IF compileFails(descriptions)
              THEN /\ \E blob \in BlobOutcomes :
                        /\ pipelinePc' = IF blob = "throw" THEN "failed" ELSE "crashed"
                        /\ lastCall' = [op |-> "createRenderPipeline",
                               error |-> IF blob = "throw" THEN "DX12 Error." ELSE ""]
                   /\ UNCHANGED << shaders_, requiredConstantBuffers_,
                                   requiredShaderResourceViews_, requiredSamplers_,
                                   mappedMemory >>
           ELSE IF hasSamplerParameter(shaders) /\ rootType = "throw"
              THEN /\ pipelinePc' = "failed"
                   /\ lastCall' = [op |-> "createRenderPipeline",
                                   error |-> "DX12 Error."]
                   /\ UNCHANGED << shaders_, requiredConstantBuffers_,
                                   requiredShaderResourceViews_, requiredSamplers_,
                                   mappedMemory >>
           ELSE IF \/ hasSamplerParameter(shaders) /\ rootType = "crash"
                   \/ hasShaderResourceView(shaders) /\ srvReturn = "crash"
              THEN /\ pipelinePc' = "crashed"
                   /\ lastCall' = [op |-> "createRenderPipeline", error |-> ""]
                   /\ UNCHANGED << shaders_, requiredConstantBuffers_,
                                   requiredShaderResourceViews_, requiredSamplers_,
                                   mappedMemory >>
           ELSE /\ pipelinePc' = "created"
                /\ lastCall' = [op |-> "createRenderPipeline", error |-> ""]
                /\ shaders_' = shaders
                /\ requiredConstantBuffers_' =
                       registryOf(constantBuffersArray, rootIndexMap)
                /\ requiredShaderResourceViews_' =
                       registryOf(shaderResourceViewArray, rootIndexMap)
                /\ requiredSamplers_' = registryOf(samplerArray, rootIndexMap)
                /\ mappedMemory' =
                       [i \in DOMAIN shaders |->
                           [b \in 0 .. (totalSizeInBytes(shaders[i].data.constantBuffers)
                                          \div 256) - 1 |-> 0]]
    /\ UNCHANGED << rootArguments, bound, pipeOps >>
    /\ UNCHANGED nonPipeVars

\* the result of find() when no entry has the key
mapEnd == << >>

\* a lookup that ignores the stage: bug variant of find
findAnyStage(map, name, stage) ==
    IF \E k \in DOMAIN map : k[1] = name
       THEN CHOOSE k \in DOMAIN map : k[1] = name
       ELSE mapEnd

\* requiredConstantBuffers_.find(std::make_pair(name, stage))
find(map, name, stage) ==
    IF << name, stage >> \in DOMAIN map THEN << name, stage >> ELSE mapEnd

\* sizeof(Ty) of the value passed: the values 1 .. MaxData are of a type of
\* FrameData's size (three float4x4), the value MaxData + 1 of a 512-byte type
sizeOf(data) == IF data > MaxData THEN 512 ELSE 192

\* the 256-byte blocks a copy of data through cb touches
copiedBlocks(cb, data) ==
    { b \in 0 .. 7 : /\ b * 256 < cb.mappedData_ + sizeOf(data)
                     /\ cb.mappedData_ < (b + 1) * 256 }

\* ConstantBuffer::copy(data): memcpy(mappedData_, &data, sizeof(Ty)); the
\* part of a copy that lies outside the resource does not reach its memory
copy(memory, cb, data) ==
    [memory EXCEPT ![cb.resource_] =
        [b \in DOMAIN memory[cb.resource_] |->
            IF b \in copiedBlocks(cb, data) THEN data
                                            ELSE memory[cb.resource_][b]]]

\* the history of successful copies, per key
noteBound(key, data) ==
    [k \in DOMAIN bound \cup {key} |-> IF k = key THEN data ELSE bound[k]]

\* RenderPipeline::bindBuffer<Ty, Policy>(name, stage, data)
bindBuffer(name, stage, data, policy) ==
    /\ pipelinePc = "created"
    /\ pipeOps < MaxPipeOps
    /\ pipeOps' = pipeOps + 1
    /\ LET it == find(requiredConstantBuffers_, name, stage) IN
       IF it = mapEnd
          THEN /\ lastCall' = [op |-> "bindBuffer", name |-> name, stage |-> stage,
                      policy |-> policy,
                      error |-> IF policy = "DefaultPolicy"
                                   THEN "Could not find buffer" ELSE ""]
               /\ UNCHANGED << mappedMemory, bound >>
          ELSE /\ mappedMemory' = copy(mappedMemory, requiredConstantBuffers_[it], data)
               /\ bound' = noteBound(it, data)
               /\ lastCall' = [op |-> "bindBuffer", name |-> name, stage |-> stage,
                      policy |-> policy, error |-> ""]
    /\ UNCHANGED << pipelinePc, shaders_, requiredConstantBuffers_,
                    requiredShaderResourceViews_, requiredSamplers_, rootArguments >>
    /\ UNCHANGED nonPipeVars

\* the root indices draw sets an address for
rootIndicesOf(map) == { map[k].index_ : k \in DOMAIN map }

\* the entry of a registry with the given root index (root indices of the
\* entries of one registry are distinct for the pipelines explored)
entryAt(map, index) == map[CHOOSE k \in DOMAIN map : map[k].index_ = index]

\* SetGraphicsRootConstantBufferView per constant buffer (the resource's
\* GetGPUVirtualAddress()), then per resource view, then per sampler
setRootArguments ==
    [r \in rootIndicesOf(requiredConstantBuffers_)
           \cup rootIndicesOf(requiredShaderResourceViews_)
           \cup rootIndicesOf(requiredSamplers_) |->
        IF r \in rootIndicesOf(requiredSamplers_)
           THEN [kind |-> "sampler", resource |-> 0, offset |-> 0]
        ELSE IF r \in rootIndicesOf(requiredShaderResourceViews_)
           THEN [kind |-> "resource view", resource |-> 0, offset |-> 0]
        ELSE [kind |-> "constant buffer",
              resource |-> entryAt(requiredConstantBuffers_, r).resource_,
              offset |-> 0]]

\* DX12Renderer::draw(entity, pipeline, camera): binds frameData, then records
\* the root arguments; a failed bindBuffer leaves draw by exception
draw(frameData) ==
    /\ pipelinePc = "created"
    /\ pipeOps < MaxPipeOps
    /\ pipeOps' = pipeOps + 1
    /\ LET it == find(requiredConstantBuffers_, "frameData", "STAGE_VERTEX") IN
       IF it = mapEnd
          THEN /\ lastCall' = [op |-> "draw", error |-> "Could not find buffer"]
               /\ UNCHANGED << mappedMemory, bound, rootArguments >>
          ELSE /\ mappedMemory' = copy(mappedMemory, requiredConstantBuffers_[it],
                                       frameData)
               /\ bound' = noteBound(it, frameData)
               /\ rootArguments' = setRootArguments
               /\ lastCall' = [op |-> "draw", error |-> ""]
    /\ UNCHANGED << pipelinePc, shaders_, requiredConstantBuffers_,
                    requiredShaderResourceViews_, requiredSamplers_ >>
    /\ UNCHANGED nonPipeVars

\* DX12Renderer::createShaderResourceViewForStructuredData /
\* createShaderResourceViewForTexture2D, called through the pipeline's member
\* pointers: a new view of the given data for the binding the entry stands for
createShaderResourceViewFor(name, data, stage) ==
    [name_ |-> name, stage_ |-> stage,
     index_ |-> requiredShaderResourceViews_[<< name, stage >>].index_,
     data |-> data]

\* the body shared by bindShaderResource and bindShaderResourceForTexture2D
bindShaderResourceAs(op, name, stage, data) ==
    /\ pipelinePc = "created"
    /\ pipeOps < MaxPipeOps
    /\ pipeOps' = pipeOps + 1
    /\ LET it == find(requiredShaderResourceViews_, name, stage) IN
       IF it = mapEnd
          THEN /\ lastCall' = [op |-> op, name |-> name, stage |-> stage,
                      data |-> data, error |-> "Could not find shader resource"]
               /\ UNCHANGED requiredShaderResourceViews_
          ELSE /\ requiredShaderResourceViews_' =
                      [requiredShaderResourceViews_ EXCEPT
                          ![it] = createShaderResourceViewFor(name, data, stage)]
               /\ lastCall' = [op |-> op, name |-> name, stage |-> stage,
                      data |-> data, error |-> ""]
    /\ UNCHANGED << pipelinePc, shaders_, requiredConstantBuffers_, requiredSamplers_,
                    mappedMemory, rootArguments, bound >>
    /\ UNCHANGED nonPipeVars

\* RenderPipeline::bindShaderResource<Ty>(name, stage, data)
bindShaderResource(name, stage, data) ==
    bindShaderResourceAs("bindShaderResource", name, stage, data)

\* RenderPipeline::bindShaderResourceForTexture2D(name, stage, data)
bindShaderResourceForTexture2D(name, stage, data) ==
    bindShaderResourceAs("bindShaderResourceForTexture2D", name, stage, data)

\* RenderPipeline::bindResourceView<Ty, DefaultPolicy>(name, stage, data):
\* throws on a miss; on a hit the body is empty
bindResourceView(name, stage, data) ==
    /\ pipelinePc = "created"
    /\ pipeOps < MaxPipeOps
    /\ pipeOps' = pipeOps + 1
    /\ LET it == find(requiredShaderResourceViews_, name, stage) IN
       lastCall' = [op |-> "bindResourceView", name |-> name, stage |-> stage,
                    data |-> data,
                    error |-> IF it = mapEnd THEN "Could not find resource view"
                                             ELSE ""]
    /\ UNCHANGED << pipelinePc, shaders_, requiredConstantBuffers_,
                    requiredShaderResourceViews_, requiredSamplers_, mappedMemory,
                    rootArguments, bound >>
    /\ UNCHANGED nonPipeVars

\* RenderPipeline::getBufferPtr<Policy>(name, stage) noexcept: a hit returns
\* the entry's address; on a miss NoThrowPolicy returns nullptr and
\* DefaultPolicy throws out of a noexcept function, which calls std::terminate
getBufferPtr(name, stage, policy) ==
    /\ pipelinePc = "created"
    /\ pipeOps < MaxPipeOps
    /\ pipeOps' = pipeOps + 1
    /\ LET it == find(requiredConstantBuffers_, name, stage)
           terminate == it = mapEnd /\ policy = "DefaultPolicy" IN
       /\ lastCall' = [op |-> "getBufferPtr", name |-> name, stage |-> stage,
                       policy |-> policy,
                       result |-> IF it = mapEnd THEN "nullptr" ELSE "entry",
                       error |-> IF terminate THEN "Could not find buffer" ELSE ""]
       /\ pipelinePc' = IF terminate THEN "terminated" ELSE pipelinePc
    /\ UNCHANGED << shaders_, requiredConstantBuffers_, requiredShaderResourceViews_,
                    requiredSamplers_, mappedMemory, rootArguments, bound >>
    /\ UNCHANGED nonPipeVars

\* RenderPipeline::getShaderResourcePtr(name, stage) noexcept: throws out of
\* the noexcept function on a miss
getShaderResourcePtr(name, stage) ==
    /\ pipelinePc = "created"
    /\ pipeOps < MaxPipeOps
    /\ pipeOps' = pipeOps + 1
    /\ LET it == find(requiredShaderResourceViews_, name, stage) IN
       /\ lastCall' = [op |-> "getShaderResourcePtr", name |-> name, stage |-> stage,
                       policy |-> "DefaultPolicy",
                       result |-> IF it = mapEnd THEN "nullptr" ELSE "entry",
                       error |-> IF it = mapEnd THEN "Could not find shader resource"
                                                ELSE ""]
       /\ pipelinePc' = IF it = mapEnd THEN "terminated" ELSE pipelinePc
    /\ UNCHANGED << shaders_, requiredConstantBuffers_, requiredShaderResourceViews_,
                    requiredSamplers_, mappedMemory, rootArguments, bound >>
    /\ UNCHANGED nonPipeVars

Stages == {"STAGE_VERTEX", "STAGE_PIXEL"}

ViewNames == {"myTexture", "normalMap", "frameData"}

BufferNames == {"frameData", "color", "unknown"}

Policies == {"DefaultPolicy", "NoThrowPolicy"}

\* no pipeline has been built; the renderer and the allocator are not used
InitPipeline ==
    /\ PipeIdle
    /\ FrameIdle
    /\ HeapIdle
    /\ ThreadsIdle
    /\ HandlesIdle
    /\ ArraysIdle

NextPipeline ==
    \/ \E descriptions \in DescriptionLists,
          rootType \in {"valid", "throw", "crash"},
          srvReturn \in {"built", "empty", "crash"} :
           createRenderPipeline(descriptions, rootType, srvReturn)
    \/ \E name \in BufferNames, stage \in Stages, data \in 1 .. (MaxData + 1),
          policy \in Policies :
           bindBuffer(name, stage, data, policy)
    \/ \E frameData \in 1 .. MaxData : draw(frameData)
    \/ \E name \in ViewNames, stage \in Stages, data \in 1 .. MaxData :
           bindShaderResource(name, stage, data)
    \/ \E name \in ViewNames, stage \in Stages, data \in 1 .. MaxData :
           bindShaderResourceForTexture2D(name, stage, data)
    \/ \E name \in ViewNames, stage \in Stages, data \in 1 .. MaxData :
           bindResourceView(name, stage, data)
    \/ \E name \in BufferNames, stage \in Stages, policy \in Policies :
           getBufferPtr(name, stage, policy)
    \/ \E name \in ViewNames, stage \in Stages : getShaderResourcePtr(name, stage)

SpecPipeline == InitPipeline /\ [][NextPipeline]_vars

(***************************************************************************)
(* SynchronizationObject lifetimes: construction, move construction, move  *)
(* assignment and destruction, under either definition of the class.  An   *)
(* event handle is a number; closeCalls[h] counts the CloseHandle(h) calls.*)
(* handles_ = << >> is the null pointer of the renderer header's HANDLE*.  *)
(***************************************************************************)
Headers == {"spider engine/dx12_renderer.hpp", "spider-engine/include/dx12_types.hpp"}

\* the definition whose moves null the source's pointers
nullsSource == header = "spider engine/dx12_renderer.hpp"

Objects == 1 .. MaxObjects

unconstructed == [state |-> "unconstructed", handles_ |-> << >>, bufferCount_ |-> 0]

\* the handles CreateEventW returns for a new object: fresh numbers
createdHandles(bufferCount) ==
    [i \in 1 .. bufferCount |-> Len(closeCalls) + i]

\* SynchronizationObject(device, bufferCount): one CreateEventW per slot
construct(o, bufferCount) ==
    /\ objects[o].state = "unconstructed"
    /\ objects' = [objects EXCEPT ![o] =
           [state |-> "alive", handles_ |-> createdHandles(bufferCount),
            bufferCount_ |-> bufferCount]]
    /\ closeCalls' = closeCalls \o [i \in 1 .. bufferCount |-> 0]
    /\ UNCHANGED header
    /\ UNCHANGED nonHandleVars

\* the source object after a move: the renderer header sets other.handles_
\* to nullptr, the include header leaves other's vector as it was
movedFrom(other) ==
    IF nullsSource THEN [other EXCEPT !.handles_ = << >>] ELSE other

\* SynchronizationObject(SynchronizationObject&& other)
moveConstruct(o, other) ==
    /\ o # other
    /\ objects[o].state = "unconstructed"
    /\ objects[other].state = "alive"
    /\ objects' = [objects EXCEPT
           ![o] = [state |-> "alive", handles_ |-> objects[other].handles_,
                   bufferCount_ |-> objects[other].bufferCount_],
           ![other] = movedFrom(objects[other])]
    /\ UNCHANGED << header, closeCalls >>
    /\ UNCHANGED nonHandleVars

\* operator=(SynchronizationObject&& other): nothing when this == &other;
\* otherwise the members are overwritten, the handles this object held are
\* not closed
moveAssign(o, other) ==
    /\ objects[o].state = "alive"
    /\ objects[other].state = "alive"
    /\ objects' = IF o = other THEN objects
                  ELSE [objects EXCEPT
                           ![o].handles_ = objects[other].handles_,
                           ![o].bufferCount_ = objects[other].bufferCount_,
                           ![other] = movedFrom(objects[other])]
    /\ UNCHANGED << header, closeCalls >>
    /\ UNCHANGED nonHandleVars

\* the handles ~SynchronizationObject() passes to CloseHandle: handles_[i]
\* for i < bufferCount_, none when handles_ is the null pointer
closedBy(object) ==
    IF object.handles_ = << >> THEN {}
    ELSE { object.handles_[i] : i \in 1 .. object.bufferCount_ }

\* ~SynchronizationObject()
destroy(o) ==
    /\ objects[o].state = "alive"
    /\ closeCalls' = [h \in DOMAIN closeCalls |->
           closeCalls[h] + IF h \in closedBy(objects[o]) THEN 1 ELSE 0]
    /\ objects' = [objects EXCEPT ![o].state = "destroyed"]
    /\ UNCHANGED header
    /\ UNCHANGED nonHandleVars

InitHandles ==
    /\ header \in Headers
    /\ objects = [o \in Objects |-> unconstructed]
    /\ closeCalls = << >>
    /\ FrameIdle
    /\ HeapIdle
    /\ PipeIdle
    /\ ThreadsIdle
    /\ ArraysIdle

NextHandles ==
    \/ \E o \in Objects, bufferCount \in 1 .. MaxEvents : construct(o, bufferCount)
    \/ \E o, other \in Objects : moveConstruct(o, other)
    \/ \E o, other \in Objects : moveAssign(o, other)
    \/ \E o \in Objects : destroy(o)

SpecHandles == InitHandles /\ [][NextHandles]_vars

(***************************************************************************)
(* FastArray<Ty>.  storage_ is "nullptr" or "block"; allocated is the      *)
(* number of elements of the allocation storage_ points at (allocate(0)    *)
(* returns a block of no elements).  The elements' values are left out.    *)
(***************************************************************************)
Arrays == 1 .. MaxArrays

notConstructed ==
    [state |-> "unconstructed", storage_ |-> "nullptr", allocated |-> 0,
     size_ |-> 0, capacity_ |-> 0]

noWrite == [op |-> "none", array |-> 0, index |-> 0, capacity_ |-> 0,
            storage_ |-> "nullptr", allocated |-> 0]

\* resizeImpl(newCapacity): allocate(newCapacity), the size_ elements are
\* moved over when storage_ is not null, the old block is freed; size_ stays
resizeImpl(array, capacity) ==
    [array EXCEPT !.storage_ = "block", !.allocated = capacity,
                  !.capacity_ = capacity]

\* FastArray(): storage_(nullptr), size_(0), capacity_(0), resizeImpl(1)
defaultConstruct(x) ==
    /\ fastArrays[x].state = "unconstructed"
    /\ fastArrays' = [fastArrays EXCEPT ![x] =
           resizeImpl([notConstructed EXCEPT !.state = "constructed"], 1)]
    /\ UNCHANGED lastPush
    /\ UNCHANGED nonArrayVars

\* FastArray(initialCapacity): capacity_(initialCapacity), resizeImpl(initialCapacity)
capacityConstruct(x, initialCapacity) ==
    /\ fastArrays[x].state = "unconstructed"
    /\ fastArrays' = [fastArrays EXCEPT ![x] =
           resizeImpl([notConstructed EXCEPT !.state = "constructed",
                                             !.capacity_ = initialCapacity],
                      initialCapacity)]
    /\ UNCHANGED lastPush
    /\ UNCHANGED nonArrayVars

\* FastArray(const FastArray& other): size_ and capacity_ are taken over;
\* storage is allocated only if (size_ > 0)
copyConstruct(x, other) ==
    /\ x # other
    /\ fastArrays[x].state = "unconstructed"
    /\ fastArrays[other].state = "constructed"
    /\ fastArrays' = [fastArrays EXCEPT ![x] =
           [state |-> "constructed",
            storage_ |-> IF fastArrays[other].size_ > 0 THEN "block" ELSE "nullptr",
            allocated |-> IF fastArrays[other].size_ > 0 THEN fastArrays[other].capacity_ ELSE 0,
            size_ |-> fastArrays[other].size_,
            capacity_ |-> fastArrays[other].capacity_]]
    /\ UNCHANGED lastPush
    /\ UNCHANGED nonArrayVars

\* the source of a move: storage_ = nullptr, size_ = 0, capacity_ = 0
movedFromArray == [notConstructed EXCEPT !.state = "constructed"]

\* FastArray(FastArray<U>&& other)
moveConstructArray(x, other) ==
    /\ x # other
    /\ fastArrays[x].state = "unconstructed"
    /\ fastArrays[other].state = "constructed"
    /\ fastArrays' = [fastArrays EXCEPT ![x] = fastArrays[other], ![other] = movedFromArray]
    /\ UNCHANGED lastPush
    /\ UNCHANGED nonArrayVars

\* operator=(FastArray&& other): nothing when this == &other; otherwise the
\* own block is freed and other's members are taken
moveAssignArray(x, other) ==
    /\ fastArrays[x].state = "constructed"
    /\ fastArrays[other].state = "constructed"
    /\ fastArrays' = IF x = other THEN fastArrays
                 ELSE [fastArrays EXCEPT ![x] = fastArrays[other], ![other] = movedFromArray]
    /\ UNCHANGED lastPush
    /\ UNCHANGED nonArrayVars

\* the array after the growth test of pushBack / emplaceBack:
\* if (size_ + 1 > capacity_) resizeImpl(capacity_ << 1)
grown(array) ==
    IF array.size_ + 1 > array.capacity_
       THEN resizeImpl(array, array.capacity_ * 2)
       ELSE array

\* pushBack / emplaceBack: growth test, new (storage_ + size_) Ty(...), ++size_
pushBackAs(op, x) ==
    /\ fastArrays[x].state = "constructed"
    /\ fastArrays[x].size_ < MaxArraySize
    /\ LET array == grown(fastArrays[x]) IN
         /\ lastPush' = [op |-> op, array |-> x, index |-> array.size_,
                          capacity_ |-> array.capacity_,
                          storage_ |-> array.storage_,
                          allocated |-> array.allocated]
         /\ fastArrays' = [fastArrays EXCEPT ![x] = [array EXCEPT !.size_ = @ + 1]]
    /\ UNCHANGED nonArrayVars

pushBack(x) == pushBackAs("pushBack", x)

emplaceBack(x) == pushBackAs("emplaceBack", x)

\* pop(): assert(size_ > 0); --size_
pop(x) ==
    /\ fastArrays[x].state = "constructed"
    /\ fastArrays[x].size_ > 0
    /\ fastArrays' = [fastArrays EXCEPT ![x].size_ = @ - 1]
    /\ lastPush' = [noWrite EXCEPT !.op = "pop"]
    /\ UNCHANGED nonArrayVars

\* erase(where): assert(begin() <= where < end()); the tail moves down; --size_
erase(x) ==
    /\ fastArrays[x].state = "constructed"
    /\ fastArrays[x].size_ > 0
    /\ fastArrays' = [fastArrays EXCEPT ![x].size_ = @ - 1]
    /\ lastPush' = [noWrite EXCEPT !.op = "erase"]
    /\ UNCHANGED nonArrayVars

\* clear(): size_ = 0
clear(x) ==
    /\ fastArrays[x].state = "constructed"
    /\ fastArrays' = [fastArrays EXCEPT ![x].size_ = 0]
    /\ lastPush' = [noWrite EXCEPT !.op = "clear"]
    /\ UNCHANGED nonArrayVars

\* resize(newSize): resizeImpl(newSize)
resize(x, newSize) ==
    /\ fastArrays[x].state = "constructed"
    /\ fastArrays' = [fastArrays EXCEPT ![x] = resizeImpl(fastArrays[x], newSize)]
    /\ lastPush' = [noWrite EXCEPT !.op = "resize"]
    /\ UNCHANGED nonArrayVars

InitFastArray ==
    /\ fastArrays = [x \in Arrays |-> notConstructed]
    /\ lastPush = noWrite
    /\ FrameIdle
    /\ HeapIdle
    /\ PipeIdle
    /\ ThreadsIdle
    /\ HandlesIdle

NextFastArray ==
    \/ \E x \in Arrays : defaultConstruct(x)
    \/ \E x \in Arrays, initialCapacity \in 0 .. MaxArraySize :
           capacityConstruct(x, initialCapacity)
    \/ \E x, other \in Arrays : copyConstruct(x, other)
    \/ \E x, other \in Arrays : moveConstructArray(x, other)
    \/ \E x, other \in Arrays : moveAssignArray(x, other)
    \/ \E x \in Arrays : pushBack(x)
    \/ \E x \in Arrays : emplaceBack(x)
    \/ \E x \in Arrays : pop(x)
    \/ \E x \in Arrays : erase(x)
    \/ \E x \in Arrays : clear(x)
    \/ \E x \in Arrays, newSize \in 0 .. MaxArraySize : resize(x, newSize)

SpecFastArray == InitFastArray /\ [][NextFastArray]_vars

(***************************************************************************)
(* Claims                                                                  *)
(***************************************************************************)

\* the command list of in-flight index i is still enqueued on the GPU queue
ExecPending(i) ==
    \E k \in DOMAIN commandQueue :
        commandQueue[k].kind = "exec" /\ commandQueue[k].arg = i

\* C1: when beginFrame is about to reset the command allocator and list of
\* index i, every frame that endFrame submitted with index i has retired: the
\* fence reached the value endFrame recorded for it and its command list is
\* no longer on the queue.
C1_RetiredBeforeReuse ==
    pc = "reset" =>
        /\ ~ExecPending(frameIndex_)
        /\ \A r \in submitLog :
              r.index = frameIndex_ => completedValue >= r.value

\* C1 witness: frame N+bufferCount is about to reuse the index of frame N
C1_Witness ==
    /\ pc = "reset"
    /\ \E r \in submitLog :
          r.index = frameIndex_ /\ r.frame + bufferCount_ = frameCount

\* C2: whenever wait(i) has returned, the fence's completed value is at
\* least values_[i]
C2_WaitReturnsComplete ==
    pc \in {"reset", "destroyed"} => completedValue >= values_[waitIndex]

\* C2 witness: a wait(i) that had to block on the event has returned
C2_Witness ==
    /\ pc \in {"reset", "destroyed"}
    /\ waitPath = "blocked"
    /\ values_[waitIndex] > 0

\* the last completed writeOnDescriptorHeap call replaced the backing table
Grew ==
    /\ lastWrite.op = "write"
    /\ descriptorHeaps_[lastWrite.id].heap # lastWrite.heapBefore

\* C3: every arena keeps size <= capacity
C3_SizeWithinCapacity ==
    \A n \in DOMAIN descriptorHeaps_ :
        descriptorHeaps_[n].size <= descriptorHeaps_[n].capacity

\* C3 witness: an arena that grew and is full
C3_Witness ==
    /\ Grew
    /\ descriptorHeaps_[lastWrite.id].size = descriptorHeaps_[lastWrite.id].capacity

\* C4: after a call that grew the arena, slots [0, size_before) of the new
\* table hold what they held in the old table right before the call
C4_GrowthCopyPreserving ==
    Grew => \A i \in 1 .. lastWrite.sizeBefore :
                descriptorHeaps_[lastWrite.id].table[i] = lastWrite.tableBefore[i]

\* C4 witness: a growth of an arena that held a written descriptor
C4_Witness ==
    /\ Grew
    /\ lastWrite.sizeBefore >= 1
    /\ lastWrite.tableBefore[1] = 1

\* C5: a call made at size_before hands the writer exactly the slots
\* size_before .. size_before+count-1 in order, growth or not, so the k-th
\* slot ever allocated in an arena has index k-1
C5_WriterGetsTailSlots ==
    /\ lastWrite.op = "write" =>
          lastWrite.written =
              [k \in 1 .. lastWrite.count |-> lastWrite.sizeBefore + (k - 1)]
    /\ \A n \in ArenaNames : \A k \in DOMAIN issued[n] : issued[n][k].slot = k - 1

\* C6: a call reallocates exactly when size + count > capacity, then to
\* max(2*capacity, size + count), else the capacity is unchanged; the
\* capacity of an arena never decreases
C6_CapacityRule ==
    /\ [](lastWrite.op = "write" =>
            LET need == lastWrite.sizeBefore + lastWrite.count
                old == lastWrite.capacityBefore
                now == descriptorHeaps_[lastWrite.id].capacity
            IN /\ Grew <=> need > old
               /\ now = IF need > old
                           THEN (IF 2 * old >= need THEN 2 * old ELSE need)
                           ELSE old
               /\ now >= need)
    /\ [][\A n \in DOMAIN descriptorHeaps_ :
             /\ n \in DOMAIN descriptorHeaps_'
             /\ descriptorHeaps_'[n].capacity >= descriptorHeaps_[n].capacity]_vars

\* C6 witness: a growth to size + count, larger than twice the old capacity
C6_Witness ==
    /\ Grew
    /\ descriptorHeaps_[lastWrite.id].capacity = lastWrite.sizeBefore + lastWrite.count
    /\ descriptorHeaps_[lastWrite.id].capacity > 2 * lastWrite.capacityBefore

\* C7: every slot reference handed out refers to the live backing table of
\* its arena, also after the arena grew
C7_ReferencesFollowGrowth ==
    \A n \in DOMAIN descriptorHeaps_ :
        \A k \in DOMAIN issued[n] : issued[n][k].heap = descriptorHeaps_[n].heap

\* the content of the 256-byte block a root argument points at
regionAt(arg) ==
    IF arg.kind = "constant buffer"
       THEN mappedMemory[arg.resource][arg.offset \div 256]
       ELSE 0

\* C8: after a draw, the region bound for the root index of every constant
\* buffer holds the data last bound to it, whatever the buffer's position
C8_DrawBindsBoundData ==
    (lastCall.op = "draw" /\ lastCall.error = "") =>
        \A key \in DOMAIN bound :
            regionAt(rootArguments[requiredConstantBuffers_[key].index_]) = bound[key]

\* the step is a bindBuffer call whose (name, stage) has no registry entry
bindBufferMiss ==
    /\ pipeOps' = pipeOps + 1
    /\ lastCall'.op = "bindBuffer"
    /\ << lastCall'.name, lastCall'.stage >> \notin DOMAIN requiredConstantBuffers_

\* the step changes no registry and no mapped constant data
registryUntouched ==
    UNCHANGED << requiredConstantBuffers_, requiredShaderResourceViews_,
                 requiredSamplers_, mappedMemory >>

reflectedKeys(kind) ==
    UNION { { << shaders_[i].data[kind][j].name, shaders_[i].stage >> :
                  j \in DOMAIN shaders_[i].data[kind] } : i \in DOMAIN shaders_ }

\* the number of resources of one kind the shaders reflect
reflectedCount(kind) ==
    Len(Flatten([i \in DOMAIN shaders_ |-> shaders_[i].data[kind]]))

\* C10: a created pipeline has exactly one registry entry per reflected
\* constant buffer, resource view and sampler, keyed by (name, stage)
C10_RegistryExact ==
    pipelinePc = "created" =>
        /\ DOMAIN requiredConstantBuffers_ = reflectedKeys("constantBuffers")
        /\ Cardinality(DOMAIN requiredConstantBuffers_)
               = reflectedCount("constantBuffers")
        /\ DOMAIN requiredShaderResourceViews_ = reflectedKeys("shaderResourceViews")
        /\ Cardinality(DOMAIN requiredShaderResourceViews_)
               = reflectedCount("shaderResourceViews")
        /\ DOMAIN requiredSamplers_ = reflectedKeys("samplers")
        /\ Cardinality(DOMAIN requiredSamplers_) = reflectedCount("samplers")

\* the fence has reached the value endFrame signaled for the n-th frame begun
SubmitCompleted(n) ==
    \A r \in submitLog : r.frame = n => completedValue >= r.value

\* C11: with two buffers the first beginFrame never takes the blocking path;
\* the third beginFrame (index 0 again) takes it exactly when the fence has
\* not reached the value of the first endFrame, and stays blocked exactly
\* until the fence reaches that value
C11_FirstFreeThirdWaits ==
    /\ [](bufferCount_ = 2 /\ waitRet = "reset" =>
            /\ frameCount = 1 => pc \notin {"wait_set", "wait_block"}
            /\ frameCount = 3 /\ pc = "wait_block" =>
                   (eventSet[waitIndex] <=> SubmitCompleted(1))
            /\ frameCount = 3 /\ pc = "reset" => SubmitCompleted(1))
    /\ [][bufferCount_ = 2 /\ waitRet = "reset" /\ frameCount = 3
             /\ pc = "wait_check" /\ pc' # pc =>
                 (pc' = "wait_set" <=> ~SubmitCompleted(1))]_vars

\* C11 witness: the third beginFrame returned from a blocking wait
C11_Witness ==
    /\ bufferCount_ = 2
    /\ frameCount = 3
    /\ pc = "reset"
    /\ waitPath = "blocked"
    /\ waitIndex = 0

\* C12: in every beginFrame the wait on frameIndex_ has completed (the fence
\* reached values_[frameIndex_]) before the allocator and the list of that
\* index are reset, the reset is entered only from a returning wait, and
\* draw, endFrame and present are never held up: each can always take its step.
C12_WaitThenResetOnly ==
    /\ [][listState' # listState /\ listState'[frameIndex_] = "recording" =>
             /\ pc = "reset"
             /\ waitIndex = frameIndex_
             /\ completedValue >= values_[frameIndex_]]_vars
    /\ [][pc' = "reset" /\ pc # "reset" =>
             /\ pc \in {"wait_check", "wait_block"}
             /\ waitIndex = frameIndex_]_vars
    /\ [](pc = "draw" => ENABLED drawRecord)
    /\ [](pc = "end" => ENABLED endFrame)
    /\ [](pc = "present" => ENABLED present)

\* C12 witness: a frame is being recorded after its beginFrame blocked on the
\* fence while earlier work was still on the queue
C12_Witness ==
    /\ pc = "draw"
    /\ waitPath = "blocked"
    /\ listState[frameIndex_] = "recording"
    /\ commandQueue # << >>

\* the entries a step put on the queue
Enqueued == SubSeq(commandQueue', Len(commandQueue) + 1, Len(commandQueue'))

\* C13: a step that calls signal(queue, i) (endFrame, the destructor) raises
\* currentValue_ by exactly 1, sets values_[i] to the new value, puts exactly
\* one Signal on the queue, of that value and behind everything queued
\* before, and leaves values_[j] unchanged for j # i; nothing else changes
\* values_ or currentValue_.
C13_SignalExact ==
    /\ [][currentValue_' # currentValue_ =>
             /\ currentValue_' = currentValue_ + 1
             /\ values_' = [values_ EXCEPT ![frameIndex_] = currentValue_']
             /\ Len(commandQueue') > Len(commandQueue)
             /\ SubSeq(commandQueue', 1, Len(commandQueue)) = commandQueue
             /\ commandQueue'[Len(commandQueue')] =
                    [kind |-> "signal", arg |-> currentValue_']
             /\ Cardinality({k \in DOMAIN Enqueued :
                                Enqueued[k].kind = "signal"}) = 1]_vars
    /\ [][values_' # values_ => currentValue_' # currentValue_]_vars

\* C13 witness: endFrame signaled index i while another index holds an
\* earlier value, and the Signal of the new value is the last queue entry
C13_Witness ==
    /\ pc = "present"
    /\ values_[frameIndex_] = currentValue_
    /\ \E j \in Indices : j # frameIndex_ /\ values_[j] > 0 /\ values_[j] < currentValue_
    /\ commandQueue # << >>
    /\ commandQueue[Len(commandQueue)] = [kind |-> "signal", arg |-> currentValue_]

\* the state of the fence object and of what waits on it
fenceState == << values_, currentValue_, completedValue, eventSet, eventRegs,
                 commandQueue >>

\* C14: the test of wait(i) returns to the caller at once, changing nothing
\* of the fence state, whenever the fence has reached values_[i]; and a
\* wait(i) called again right after wait(i) returned, with no signal in
\* between, always returns that way: it never reaches the event wait.
C14_WaitNoOp ==
    /\ [][pc = "wait_check" /\ pc' # pc /\ completedValue >= values_[waitIndex] =>
             /\ pc' = waitRet
             /\ UNCHANGED fenceState]_vars
    /\ [](waitPath = "again" => pc = "wait_check")
    /\ [][waitPath = "again" /\ pc' # pc =>
             /\ pc' = waitRet
             /\ waitPath' = "again fast"
             /\ UNCHANGED fenceState]_vars

\* C14 witness: a repeated wait(i) on an index that has been signaled
\* returned to the caller
C14_Witness ==
    /\ pc = "reset"
    /\ waitPath = "again fast"
    /\ values_[waitIndex] > 0

\* commands the GPU has still to execute: frame command lists and uploads
Outstanding ==
    { k \in DOMAIN commandQueue : commandQueue[k].kind \in {"exec", "upload"} }

\* C15: once the destructor is past the wait(0) that follows its final
\* signal, nothing submitted on the queue is outstanding: no frame command
\* list of any index, no background upload, and both fences have reached
\* the last value signaled on them.
C15_DrainedAtDestruction ==
    pc = "deleted" =>
        /\ Outstanding = {}
        /\ completedValue = currentValue_
        /\ nonRenderingRelatedSynchronizationObject_.completedValue
               = nonRenderingRelatedSynchronizationObject_.currentValue_

\* C15 witness: the destructor finished after frames of every index and
\* uploads were submitted
C15_Witness ==
    /\ pc = "deleted"
    /\ uploadCount = MaxUploads
    /\ \A i \in Indices : \E r \in submitLog : r.index = i

\* submitted frame command lists not yet retired; each was recorded by draw
\* with the root constant-buffer view of the pipeline's one frameData region
FrameDataReaders ==
    { k \in DOMAIN commandQueue : commandQueue[k].kind = "exec" }

\* C16: draw's bindBuffer("frameData") copy into the constant-buffer region
\* never happens while a submitted frame that reads the region is unretired.
C16_NoOverwriteInFlight ==
    [][pc = "draw" /\ pc' = "end" => FrameDataReaders = {}]_vars

\* an upload recorded with allocator and list 0 is still on the queue
UploadPending ==
    \E k \in DOMAIN commandQueue : commandQueue[k].kind = "upload"

\* C17: createTexture2D resets the background allocator and list 0 only
\* when no upload submitted from them before is still to be executed.
C17_UploadRetiredBeforeReuse ==
    [][uploadCount' # uploadCount => ~UploadPending]_vars

\* the step is a call of one of the operations that bind a resource view
bindViewCall ==
    /\ pipeOps' = pipeOps + 1
    /\ lastCall'.op \in {"bindShaderResource", "bindShaderResourceForTexture2D",
                         "bindResourceView"}

\* C18: a resource-view bind on an existing (name, stage) leaves that entry
\* holding a view of the data passed, under the same keys and with every
\* other entry of every registry unchanged; on a miss it reports a lookup
\* error and changes no registry.
C18_BindViewReplacesEntry ==
    [][bindViewCall =>
          LET key == << lastCall'.name, lastCall'.stage >> IN
          IF key \in DOMAIN requiredShaderResourceViews_
             THEN /\ lastCall'.error = ""
                  /\ DOMAIN requiredShaderResourceViews_'
                         = DOMAIN requiredShaderResourceViews_
                  /\ requiredShaderResourceViews_'[key].data = lastCall'.data
                  /\ \A k \in DOMAIN requiredShaderResourceViews_ \ {key} :
                         requiredShaderResourceViews_'[k]
                            = requiredShaderResourceViews_[k]
                  /\ UNCHANGED << requiredConstantBuffers_, requiredSamplers_ >>
             ELSE /\ lastCall'.error \in {"Could not find shader resource",
                                          "Could not find resource view"}
                  /\ registryUntouched]_vars

\* the raw binding points of all shaders in reflection order; the root
\* parameter made for the k-th of them has root index k - 1
bindingPoints ==
    Flatten([i \in DOMAIN shaders_ |-> shaders_[i].data.shaderResourceBindingData])

\* the binding points whose name and stage are those of the key
matching(key) ==
    { k \in DOMAIN bindingPoints :
        bindingPoints[k].name = key[1] /\ bindingPoints[k].stage = key[2] }

\* the entry's index is its position in some shader's list of that kind
discoveryPosition(kind, key, index) ==
    \E i \in DOMAIN shaders_ : \E j \in DOMAIN shaders_[i].data[kind] :
        /\ shaders_[i].stage = key[2]
        /\ shaders_[i].data[kind][j].name = key[1]
        /\ index = j - 1

\* the rule of C19 for one registry
indexRule(map, kind) ==
    \A key \in DOMAIN map :
        IF matching(key) # {}
           THEN map[key].index_ =
                    (CHOOSE k \in matching(key) :
                        \A m \in matching(key) : k <= m) - 1
           ELSE discoveryPosition(kind, key, map[key].index_)

AllStageLists ==
    { d \in DescriptionLists : \E i \in DOMAIN d : d[i].stage = "STAGE_ALL" }

\* C20: every createRenderPipeline call whose descriptions include a shader
\* of stage STAGE_ALL ends in the call itself with the error "Impossible to
\* create shader to all stages at once." and yields no pipeline: no shader,
\* no registry entry and no mapped memory exists afterwards.
C20_StageAllRejected ==
    [][\A d \in AllStageLists :
         \A rootType \in {"valid", "throw", "crash"},
            srvReturn \in {"built", "empty", "crash"} :
             createRenderPipeline(d, rootType, srvReturn) =>
                 /\ lastCall'.op = "createRenderPipeline"
                 /\ lastCall'.error
                        = "Impossible to create shader to all stages at once."
                 /\ pipelinePc' = "failed"
                 /\ shaders_' = << >>
                 /\ requiredConstantBuffers_' = << >>
                 /\ requiredShaderResourceViews_' = << >>
                 /\ requiredSamplers_' = << >>
                 /\ mappedMemory' = << >>]_vars

\* C20 witness: a createRenderPipeline call was rejected for STAGE_ALL
C20_Witness ==
    /\ lastCall.op = "createRenderPipeline"
    /\ lastCall.error = "Impossible to create shader to all stages at once."
    /\ pipelinePc = "failed"
    /\ shaders_ = << >>

\* the description lists with a shader that does not compile
BrokenLists == { d \in DescriptionLists : compileFails(d) }

\* C21: every createRenderPipeline call with a shader that fails to compile
\* or reflect ends with an error reported to the caller and builds nothing.
C21_CompileFailureAborts ==
    [][\A d \in BrokenLists :
         \A rootType \in {"valid", "throw", "crash"},
            srvReturn \in {"built", "empty", "crash"} :
             createRenderPipeline(d, rootType, srvReturn) =>
                 /\ pipelinePc' = "failed"
                 /\ lastCall'.error # ""
                 /\ shaders_' = << >>
                 /\ requiredConstantBuffers_' = << >>
                 /\ requiredShaderResourceViews_' = << >>
                 /\ requiredSamplers_' = << >>]_vars

\* the registry an operation looks its (name, stage) up in
lookupRegistry(op) ==
    IF op \in {"bindBuffer", "getBufferPtr", "draw"}
       THEN requiredConstantBuffers_
       ELSE requiredShaderResourceViews_

\* the step is a lookup of a (name, stage) that has no registry entry
lookupMiss ==
    /\ pipeOps' = pipeOps + 1
    /\ LET key == IF lastCall'.op = "draw"
                     THEN << "frameData", "STAGE_VERTEX" >>
                     ELSE << lastCall'.name, lastCall'.stage >> IN
       key \notin DOMAIN lookupRegistry(lastCall'.op)

\* C22: every lookup miss (bindBuffer, bindShaderResource, getBufferPtr,
\* getShaderResourcePtr, draw without a frameData buffer) comes back to the
\* caller as an error and the process goes on: the pipeline stays usable.
C22_MissIsRecoverable ==
    [][lookupMiss =>
          /\ lastCall'.error # ""
          /\ pipelinePc' = "created"]_vars

\* the (name, stage) pairs of the constant buffers the descriptions declare
declaredBuffers(d) ==
    UNION { { << d[i].pathOrSource[p].name, d[i].stage >> :
                p \in DOMAIN d[i].pathOrSource } : i \in DOMAIN d }

\* the description lists whose shaders declare constant buffers only, or
\* nothing at all: no resource view and no sampler
BuffersOnlyLists ==
    { d \in DescriptionLists :
        \A i \in DOMAIN d :
            /\ d[i].stage # "STAGE_ALL"
            /\ \A p \in DOMAIN d[i].pathOrSource :
                   d[i].pathOrSource[p].type = "D3D_SIT_CBUFFER" }

C24_SlotsWithinTables ==
    /\ ~heapFault
    /\ lastWrite.op = "write" =>
          /\ lastWrite.copied <= lastWrite.capacityBefore
          /\ lastWrite.copied <= descriptorHeaps_[lastWrite.id].capacity
          /\ \A k \in DOMAIN lastWrite.written :
                 lastWrite.written[k] < descriptorHeaps_[lastWrite.id].capacity

\* the (heap, slot) pairs thread t's writer calls initialised
slotsOf(t) == { threads[t].written[k] : k \in DOMAIN threads[t].written }

\* C25: when two threads have both completed a writeOnDescriptorHeap call on
\* the same arena, the slots they initialised are disjoint and the size is
\* the initial size plus both counts.
C25_ConcurrentAsSerial ==
    (\A t \in Threads : threads[t].pc = "done") =>
        /\ slotsOf(1) \cap slotsOf(2) = {}
        /\ sharedHeap.size = threads[1].operationCount + threads[2].operationCount

\* the bytes [from, from + size) of two regions overlap
overlap(a, sizeA, b, sizeB) == a < b + sizeB /\ b < a + sizeA

\* C26: in a built pipeline every constant buffer's mapped write region
\* starts at the offset of its constant-buffer view, ends inside the shared
\* resource of its createConstantBuffers call, and overlaps the region of no
\* other buffer of that resource.
C26_MappedRegionIsViewRegion ==
    pipelinePc = "created" =>
        \A k \in DOMAIN requiredConstantBuffers_ :
            LET cb == requiredConstantBuffers_[k] IN
            /\ cb.mappedData_ = cb.bufferLocation
            /\ cb.mappedData_ + cb.sizeInBytes_
                   <= totalSizeInBytes(shaders_[cb.resource_].data.constantBuffers)
            /\ \A m \in DOMAIN requiredConstantBuffers_ \ {k} :
                   LET other == requiredConstantBuffers_[m] IN
                   other.resource_ = cb.resource_ =>
                       ~overlap(cb.mappedData_, cb.sizeInBytes_,
                                other.mappedData_, other.sizeInBytes_)

\* the step is a bindBuffer call that found its (name, stage) entry
bindBufferHit ==
    /\ pipeOps' = pipeOps + 1
    /\ lastCall'.op = "bindBuffer"
    /\ << lastCall'.name, lastCall'.stage >> \in DOMAIN requiredConstantBuffers_

\* C27: a successful bindBuffer writes no more bytes than the matched
\* buffer's sizeInBytes_: every 256-byte block outside that buffer's mapped
\* region keeps its content and the write does not go on past the region.
C27_CopyWithinBuffer ==
    [][bindBufferHit =>
          LET key == << lastCall'.name, lastCall'.stage >>
              cb == requiredConstantBuffers_[key] IN
          /\ sizeOf(bound'[key]) <= cb.sizeInBytes_
          /\ \A r \in DOMAIN mappedMemory : \A b \in DOMAIN mappedMemory[r] :
                 (r # cb.resource_
                    \/ ~overlap(b * 256, 256, cb.mappedData_, cb.sizeInBytes_))
                 => mappedMemory'[r][b] = mappedMemory[r][b]]_vars

\* the destructor's signal on the frame fence has been called
destructorSignaled == waitRet = "destroyed"

\* number of signal calls on the frame SynchronizationObject so far
signalCalls == Cardinality(submitLog) + IF destructorSignaled THEN 1 ELSE 0

\* slot i of the frame SynchronizationObject has been signaled
signaled(i) ==
    \/ \E s \in submitLog : s.index = i
    \/ destructorSignaled /\ i = frameIndex_

\* the destructor's signal(queue, 0) on the second SynchronizationObject has
\* been called
nonRenderingSignaled ==
    pc \in {"nonRendering_wait_check", "nonRendering_wait_set",
            "nonRendering_wait_block", "deleted"}

\* C28: currentValue_ is the number of signal calls, no slot's value exceeds
\* it, a slot holds 0 until it is first signaled, signaled slots hold
\* pairwise different values, and the fence's completed value never exceeds
\* currentValue_; for the renderer's frame fence and its second fence.
C28_FenceCounters ==
    /\ currentValue_ = signalCalls
    /\ completedValue <= currentValue_
    /\ \A i \in DOMAIN values_ :
          /\ values_[i] <= currentValue_
          /\ ~signaled(i) => values_[i] = 0
          /\ \A j \in DOMAIN values_ :
                (i # j /\ signaled(i) /\ signaled(j)) => values_[i] # values_[j]
    /\ LET so == nonRenderingRelatedSynchronizationObject_ IN
          /\ so.currentValue_ = IF nonRenderingSignaled THEN 1 ELSE 0
          /\ so.completedValue <= so.currentValue_
          /\ so.values_[0] = so.currentValue_

C28_Witness ==
    /\ currentValue_ >= 2
    /\ completedValue >= 1
    /\ \E i \in DOMAIN values_ : ~signaled(i)
    /\ \E i, j \in DOMAIN values_ : i # j /\ signaled(i) /\ signaled(j)

\* objects whose destructor has still to run and would close handle h
holders(h) ==
    { o \in DOMAIN objects : objects[o].state = "alive" /\ h \in closedBy(objects[o]) }

\* C29: every event handle a SynchronizationObject created is closed exactly
\* once over the lifetimes of the objects it passes through: never closed
\* twice, and while it is not yet closed some live object will close it.
C29_HandleClosedOnce ==
    \A h \in DOMAIN closeCalls :
        /\ closeCalls[h] <= 1
        /\ closeCalls[h] = 0 => holders(h) # {}

\* the include header alone: no handle is closed twice
C29_IncludeNoDoubleClose ==
    ~nullsSource => \A h \in DOMAIN closeCalls : closeCalls[h] <= 1

\* the renderer header alone: no handle is leaked
C29_RendererNoLeak ==
    nullsSource => \A h \in DOMAIN closeCalls : closeCalls[h] = 0 => holders(h) # {}

\* the latest step was a pushBack or emplaceBack
wrote == lastPush.op \in {"pushBack", "emplaceBack"}

\* C30: after any sequence of FastArray constructions, pushBack/emplaceBack,
\* pop, erase, clear, resize and moves, size_ <= capacity_ holds and every
\* pushBack/emplaceBack writes into allocated storage at an index below
\* capacity_.
C30_ArrayWithinCapacity ==
    /\ \A x \in DOMAIN fastArrays :
          fastArrays[x].state = "constructed" => fastArrays[x].size_ <= fastArrays[x].capacity_
    /\ wrote => /\ lastPush.index < lastPush.capacity_
                /\ lastPush.storage_ = "block"
                /\ lastPush.index < lastPush.allocated

\* a pushBack that has storage writes below the capacity (an array of
\* capacity 0: moved-from, or constructed with capacity 0)
C30_MovedFromPush ==
    (wrote /\ lastPush.storage_ = "block") => lastPush.index < lastPush.capacity_

\* pushBack never writes through a null storage_ (a copy of an empty array)
C30_CopyOfEmptyPush == wrote => lastPush.storage_ = "block"

\* size_ <= capacity_ (resize below size_)
C30_SizeWithinCapacity ==
    \A x \in DOMAIN fastArrays :
        fastArrays[x].state = "constructed" => fastArrays[x].size_ <= fastArrays[x].capacity_

====
